---- MODULE Spec2Model ----
(***************************************************************************)
(* Model of server/engine/src/trial.py: Trial.load_trial (with             *)
(* set_force_plates and autoclip_force_plates), Trial.split_segments,      *)
(* TrialSegment.__init__ and TrialSegment.lowpass_filter.                  *)
(*                                                                         *)
(* Numbers.  A 3-vector sample of a force, centre-of-pressure or moment    *)
(* channel is modelled by one signed component x (the vector <<x, 0, 0>>), *)
(* in units of 1e-3, so that its norm is |x| and the 1e-3 force threshold  *)
(* of split_segments is the integer 1.  Times are in milliseconds; the     *)
(* timestep is the exact fraction <<numerator, denominator>> ms.           *)
(* Histogram bin edges are kept exact: a threshold is stored in units of   *)
(* 1/(2*NumBins) of the force unit.                                        *)
(***************************************************************************)
EXTENDS Integers, Sequences, FiniteSets, TLC

VARIABLES
    file,                     \* the trial folder load_trial reads (input)
    pc,                       \* position of the pipeline for this Trial
    marker_observations,      \* Trial.marker_observations
    force_plate_raw_forces,   \* Trial.force_plate_raw_forces  [plate][frame]
    force_plate_raw_cops,     \* Trial.force_plate_raw_cops    [plate][frame]
    force_plate_raw_moments,  \* Trial.force_plate_raw_moments [plate][frame]
    force_plate_thresholds,   \* Trial.force_plate_thresholds  [plate]
    timestamps,               \* Trial.timestamps
    timestep,                 \* Trial.timestep, <<num, den>> milliseconds
    error,                    \* Trial.error
    error_loading_files,      \* Trial.error_loading_files (which message)
    segments,                 \* Trial.segments
    max_grf_gap_fill_size,    \* argument of the last split_segments call (ms)
    max_segment_frames        \* argument of the last split_segments call

vars == <<file, pc, marker_observations, force_plate_raw_forces,
          force_plate_raw_cops, force_plate_raw_moments,
          force_plate_thresholds, timestamps, timestep, error,
          error_loading_files, segments, max_grf_gap_fill_size,
          max_segment_frames>>

trialVars == <<marker_observations, force_plate_raw_forces,
               force_plate_raw_cops, force_plate_raw_moments,
               force_plate_thresholds, timestamps, timestep, error,
               error_loading_files>>

(***************************************************************************)
(* Program constants                                                       *)
(***************************************************************************)
NumBins == 200
ForceEps == 1
DefaultTimestepMs == 10
MinFilterFrames == 10
MinFilterRun == 10

(***************************************************************************)
(* Samples and markers                                                     *)
(***************************************************************************)
\* A channel sample: component x; lp marks a value that filtfilt produced
\* (from an input whose component was x).
Vec(x) == [x |-> x, lp |-> FALSE]
Zeros3 == Vec(0)
Norm(v) == IF v.x < 0 THEN 0 - v.x ELSE v.x

\* A marker position is abstracted to the set of defects of its components:
\* "nan" (some component is NaN), "big" (some component has magnitude > 1e6).
HasNaN(marker) == "nan" \in marker
HasLarge(marker) == "big" \in marker

\* The loops over frames and bins are folded by halves, the first half
\* before the second. TLC evaluates an operator's arguments on demand; the
\* guard Done(v), which always holds, makes it finish v before going on, so
\* that the fold over n iterations nests only log n deep.
Done(v) == v = v

Min2(a, b) == IF a < b THEN a ELSE b

\* A Python list built by a loop or a comprehension: its elements are
\* computed once.
List(f) == SubSeq(f, 1, Len(f))

\* s[start:end], with the 0-based indices of the code.
Slice(s, start, end) == SubSeq(s, start + 1, end)

(***************************************************************************)
(* autoclip_force_plates                                                   *)
(***************************************************************************)
SeqMin(s) == CHOOSE m \in {s[t] : t \in 1..Len(s)} : \A t \in 1..Len(s) : m <= s[t]
SeqMax(s) == CHOOSE m \in {s[t] : t \in 1..Len(s)} : \A t \in 1..Len(s) : m >= s[t]

\* np.histogram's value range, doubled to stay in the integers: an empty
\* input has range (0, 1), a single-valued input (v - 0.5, v + 0.5); 1 and
\* 0.5 are 1000 and 500 of the model's unit of 1e-3.
HistLo2(norms) ==
    IF Len(norms) = 0 THEN 0
    ELSE IF SeqMin(norms) = SeqMax(norms) THEN 2 * SeqMin(norms) - 1000
    ELSE 2 * SeqMin(norms)
HistHi2(norms) ==
    IF Len(norms) = 0 THEN 2000
    ELSE IF SeqMin(norms) = SeqMax(norms) THEN 2 * SeqMax(norms) + 1000
    ELSE 2 * SeqMax(norms)

\* The bin of value x among NumBins equal bins; the last bin is closed.
BinOf(x, lo2, hi2) ==
    LET k == ((2 * x - lo2) * NumBins) \div (hi2 - lo2)
    IN  IF k >= NumBins THEN NumBins - 1 ELSE k

\* bin_edges[k], in units of 1/(2*NumBins).
BinEdge(k, lo2, hi2) == NumBins * lo2 + k * (hi2 - lo2)

\* The bin of every frame's norm. hist[j] is the number of frames in bin j.
Bins(norms) ==
    LET lo2 == HistLo2(norms)
        hi2 == HistHi2(norms)
    IN  List([t \in 1..Len(norms) |-> BinOf(norms[t], lo2, hi2)])
BinCount(bins, j) == Cardinality({t \in 1..Len(bins) : bins[t] = j})

\* np.argmax(hist): the first index of the largest count. An empty bin is
\* the first largest one only when every bin is empty, and then it is bin
\* 0, so it is enough to look at bin 0 and the occupied bins.
ArgMax(bins) ==
    LET occupied == {bins[t] : t \in 1..Len(bins)} \cup {0}
    IN  CHOOSE j \in occupied :
            \A k \in occupied :
                \/ BinCount(bins, k) < BinCount(bins, j)
                \/ BinCount(bins, k) = BinCount(bins, j) /\ j <= k

\* hist[j] < avg_bin_value, with avg_bin_value = trial_len / num_bins.
BelowAverage(count, trial_len) == count * NumBins < trial_len

\* A right bound that stays at the peak.
RightBoundAtPeak(bins, hist_max_index, trial_len) == hist_max_index

\* The loop of lines 189-193: the first bin from hist_max_index on whose
\* count is below the average; hist_max_index itself when there is none.
\* Of any trial_len + 1 bins one is empty, and an empty bin is below the
\* average of a trial with frames, so the loop ends within trial_len bins.
RightBound(bins, hist_max_index, trial_len) ==
    LET last == Min2(NumBins - 1, hist_max_index + trial_len)
        below == {j \in hist_max_index..last :
                    BelowAverage(BinCount(bins, j), trial_len)}
    IN  IF below = {} THEN hist_max_index
        ELSE CHOOSE j \in below : \A k \in below : j <= k

\* hist_max_index < num_bins / 4
PeakInBottomQuarter(hist_max_index) == 4 * hist_max_index < NumBins
\* right_bound > num_bins / 2
BoundTooFar(right_bound) == 2 * right_bound > NumBins
\* force_norms[t] < zero_threshold
BelowThreshold(norm, zero_threshold) == 2 * NumBins * norm < zero_threshold

\* Lines 181-206 for one plate: the peak bin, the right bound, whether
\* autoclip acts on the plate, and the threshold it then records.
ClipDecision(norms) ==
    LET bins == Bins(norms)
        hist_max_index == ArgMax(bins)
        right_bound == RightBound(bins, hist_max_index, Len(norms))
    IN  [hist_max_index |-> hist_max_index,
         right_bound |-> right_bound,
         acts |-> PeakInBottomQuarter(hist_max_index)
                  /\ ~BoundTooFar(right_bound),
         zero_threshold |-> BinEdge(right_bound, HistLo2(norms), HistHi2(norms))]

\* A clip that does not look at where the peak and the right bound are.
ClipPlateUnchecked(forces, cops, moments, threshold, trial_len) ==
    LET force_norms == List([t \in 1..trial_len |-> Norm(forces[t])])
        zero_threshold == ClipDecision(force_norms).zero_threshold
        clipped(ch) == List([t \in 1..Len(ch) |->
                          IF t <= trial_len
                             /\ BelowThreshold(force_norms[t], zero_threshold)
                          THEN Zeros3 ELSE ch[t]])
    IN  [forces |-> clipped(forces), cops |-> clipped(cops),
         moments |-> clipped(moments), threshold |-> zero_threshold]

\* One iteration of the loop over plates: the plate's three channels and
\* its threshold entry after autoclip.
ClipPlate(forces, cops, moments, threshold, trial_len) ==
    LET force_norms == List([t \in 1..trial_len |-> Norm(forces[t])])
        decision == ClipDecision(force_norms)
        zero_threshold == decision.zero_threshold
        clipped(ch) == List([t \in 1..Len(ch) |->
                          IF t <= trial_len
                             /\ BelowThreshold(force_norms[t], zero_threshold)
                          THEN Zeros3 ELSE ch[t]])
    IN  IF decision.acts
        THEN [forces |-> clipped(forces), cops |-> clipped(cops),
              moments |-> clipped(moments), threshold |-> zero_threshold]
        ELSE [forces |-> forces, cops |-> cops, moments |-> moments,
              threshold |-> threshold]

\* set_force_plates: copy the channels, thresholds 0, then autoclip.
SetForcePlates(plates, trial_len) ==
    [i \in 1..Len(plates) |->
        ClipPlate(plates[i].forces, plates[i].centersOfPressure,
                  plates[i].moments, 0, trial_len)]

(***************************************************************************)
(* load_trial                                                              *)
(***************************************************************************)
AnyHaveMarkers(obs) == \E t \in 1..Len(obs) : Len(obs[t]) > 0

\* The first marker of a frame, in dict order, with a NaN or a large value:
\* the inner loop of lines 143-153 stops there. 0 when the frame is clean.
FirstDefect(frame) ==
    IF \E k \in 1..Len(frame) : HasNaN(frame[k]) \/ HasLarge(frame[k])
    THEN CHOOSE k \in 1..Len(frame) :
            /\ HasNaN(frame[k]) \/ HasLarge(frame[k])
            /\ \A h \in 1..(k - 1) : ~(HasNaN(frame[h]) \/ HasLarge(frame[h]))
    ELSE 0

\* What the inner loop of lines 143-153 writes for one frame.
FrameMessage(frame) ==
    IF FirstDefect(frame) = 0 THEN ""
    ELSE IF HasNaN(frame[FirstDefect(frame)]) THEN "NaNs in marker data"
    ELSE "suspiciously large values"

\* The outer loop of lines 142-153 over the frames lo..hi (folded by
\* halves): every defective frame overwrites the error state.
RECURSIVE ValidateRange(_, _, _, _)
ValidateRange(obs, lo, hi, st) ==
    IF lo > hi THEN st
    ELSE IF lo = hi
    THEN (IF FrameMessage(obs[lo]) = "" THEN st
          ELSE [error |-> TRUE, msg |-> FrameMessage(obs[lo])])
    ELSE LET mid == (lo + hi) \div 2
             first == ValidateRange(obs, lo, mid, st)
         IN  IF Done(first) THEN ValidateRange(obs, mid + 1, hi, first)
             ELSE first

\* Lines 135-153.
Validate(obs, st) ==
    ValidateRange(obs, 1, Len(obs),
        IF Len(obs) = 0 /\ ~st.error
        THEN [error |-> TRUE, msg |-> "No marker data frames"]
        ELSE st)

\* (timestamps[-1] - timestamps[0]) / len(timestamps) when there is more
\* than one timestamp, else the default of Trial.__init__.
Timestep(ts) ==
    IF Len(ts) > 1 THEN <<ts[Len(ts)] - ts[1], Len(ts)>>
    ELSE <<DefaultTimestepMs, 1>>

\* The marker error of lines 67-75 and 88-96.
MarkerFileError(obs) ==
    IF AnyHaveMarkers(obs) THEN [error |-> FALSE, msg |-> ""]
    ELSE [error |-> TRUE, msg |-> "no markers on any timestep"]

Init ==
    /\ file = [kind |-> "unread"]
    /\ pc = "new"
    /\ marker_observations = <<>>
    /\ force_plate_raw_forces = <<>>
    /\ force_plate_raw_cops = <<>>
    /\ force_plate_raw_moments = <<>>
    /\ force_plate_thresholds = <<>>
    /\ timestamps = <<>>
    /\ timestep = <<DefaultTimestepMs, 1>>
    /\ error = FALSE
    /\ error_loading_files = ""
    /\ segments = <<>>
    /\ max_grf_gap_fill_size = 0
    /\ max_segment_frames = 0

\* load_trial on folder f: kind "c3d" (markers.c3d), "trc" (markers.trc,
\* with grf.mot when f.grf), or "none" (neither file exists).
LoadTrial(f) ==
    /\ pc = "new"
    /\ pc' = "loaded"
    /\ file' = f
    /\ LET obs == IF f.kind = "none" THEN <<>> ELSE f.markerTimesteps
           plates == IF f.kind = "c3d" \/ (f.kind = "trc" /\ f.grf)
                     THEN SetForcePlates(f.forcePlates, Len(obs))
                     ELSE <<>>
           st0 == IF f.kind = "none"
                  THEN [error |-> TRUE, msg |-> "No marker files exist"]
                  ELSE MarkerFileError(obs)
           st == Validate(obs, st0)
       IN  /\ marker_observations' = obs
           /\ force_plate_raw_forces' = [i \in 1..Len(plates) |-> plates[i].forces]
           /\ force_plate_raw_cops' = [i \in 1..Len(plates) |-> plates[i].cops]
           /\ force_plate_raw_moments' = [i \in 1..Len(plates) |-> plates[i].moments]
           /\ force_plate_thresholds' = [i \in 1..Len(plates) |-> plates[i].threshold]
           /\ timestamps' = IF f.kind = "none" THEN <<>> ELSE f.timestamps
           /\ timestep' = IF f.kind = "none" THEN <<DefaultTimestepMs, 1>>
                          ELSE Timestep(f.timestamps)
           /\ error' = st.error
           /\ error_loading_files' = st.msg
    /\ UNCHANGED <<segments, max_grf_gap_fill_size, max_segment_frames>>

(***************************************************************************)
(* TrialSegment.__init__                                                   *)
(***************************************************************************)
\* The inner loop of lines 361-369 over the markers of one frame, from
\* marker k on: a NaN sets has_error and goes on; a large value sets the
\* attribute `error` of the segment object (not has_error) and leaves the
\* loop.
RECURSIVE SegmentFrameCheck(_, _, _)
SegmentFrameCheck(frame, k, st) ==
    IF k > Len(frame) THEN st
    ELSE IF HasNaN(frame[k])
    THEN SegmentFrameCheck(frame, k + 1,
            [st EXCEPT !.has_error = TRUE,
                       !.error_msg = "Trial segment has NaNs in marker data."])
    ELSE IF HasLarge(frame[k])
    THEN [st EXCEPT !.error = TRUE,
                    !.error_msg = "Trial segment has suspiciously large values"]
    ELSE SegmentFrameCheck(frame, k + 1, st)

\* The outer loop of lines 360-369 over the frames lo..hi, folded by halves.
RECURSIVE SegmentCheck(_, _, _, _)
SegmentCheck(obs, lo, hi, st) ==
    IF lo > hi THEN st
    ELSE IF lo = hi THEN SegmentFrameCheck(obs[lo], 1, st)
    ELSE LET mid == (lo + hi) \div 2
             first == SegmentCheck(obs, lo, mid, st)
         IN  IF Done(first) THEN SegmentCheck(obs, mid + 1, hi, first)
             ELSE first

\* Arrays and lists.  A channel is a Python list of arrays and a frame of
\* markers a dict of arrays.  Two lists can hold the same array: a write
\* into the array (a[:] = v) then shows in both, a write that rebinds the
\* item of one list (list[t] = v) shows in that list only and ends the
\* sharing of that item.
SeenByOtherHolder(kind, shared) == kind = "in place" /\ shared

\* obs[marker].copy() at line 298: the segment's marker arrays are not the
\* parent's.
MarkerArraysShared == FALSE
\* list[start:end] at lines 310-312: a new list of the parent's arrays.
SlicedArraysShared == TRUE

\* TrialSegment(parent, start, end), with the parent's fields passed in:
\* the frames [start, end) of the marker observations and of every plate's
\* channels, copied; start and end are the 0-based indices of the code.
TrialSegment(obs, forces, cops, moments, ts, start, end) ==
    LET seg_obs == Slice(obs, start, end)
        st0 == [has_error |-> Len(seg_obs) = 0,
                error |-> FALSE,
                error_msg |-> IF Len(seg_obs) = 0
                              THEN "No marker data frames found" ELSE ""]
        st == SegmentCheck(seg_obs, 1, Len(seg_obs), st0)
    IN  [start |-> start,
         end |-> end,
         timestamps |-> IF Len(ts) >= end THEN Slice(ts, start, end) ELSE <<>>,
         has_markers |-> FALSE,
         has_forces |-> FALSE,
         has_error |-> st.has_error,
         error |-> st.error,
         error_msg |-> st.error_msg,
         marker_observations |-> seg_obs,
         force_plate_raw_forces |->
             [i \in 1..Len(forces) |-> Slice(forces[i], start, end)],
         force_plate_raw_cops |->
             [i \in 1..Len(cops) |-> Slice(cops[i], start, end)],
         force_plate_raw_moments |->
             [i \in 1..Len(moments) |-> Slice(moments[i], start, end)],
         shares_markers |-> MarkerArraysShared,
         shares_channels |->
             [i \in 1..Len(forces) |->
                 List([t \in 1..(end - start) |-> SlicedArraysShared])],
         kinematics_poses |-> -1,
         lowpass_poses |-> -1,
         lowpass_force_plates |-> <<>>,
         lowpass_returned |-> "not called"]

(***************************************************************************)
(* TrialSegment.lowpass_filter                                             *)
(***************************************************************************)
\* Lines 391-395: the norms of a plate's forces over the first trial_len
\* frames.
ForceNorms(forces, trial_len) ==
    List([t \in 1..trial_len |-> Norm(forces[t])])

\* Lines 402-417: the non-zero segments (start, end) of a plate, 0-based,
\* with `end` the last frame of the run: a run is opened at the first frame
\* with force_norms[t] > 0.0 and closed, as (last_nonzero, t - 1), at the
\* next frame without, or as (last_nonzero, trial_len - 1) after the loop.
NonZeroSegments(force_norms) ==
    LET n == Len(force_norms)
    IN  {run \in (0..(n - 1)) \X (0..(n - 1)) :
            /\ run[1] <= run[2]
            /\ \A t \in run[1]..run[2] : force_norms[t + 1] > 0
            /\ run[1] = 0 \/ force_norms[run[1]] = 0
            /\ run[2] = n - 1 \/ force_norms[run[2] + 2] = 0}

\* A window that starts one frame before the run.
RunWindowFromBefore(start, end) ==
    (IF start > 0 THEN start - 1 ELSE start)..(end - 1)

\* range(start, end) and the columns start:end: the frames, 0-based, the
\* loops of lines 424-428 and 430-436 write.
RunWindow(start, end) == start..(end - 1)

\* end - start < 10
TooShort(start, end) == end - start < MinFilterRun

\* A sample of filtfilt's output.
Filtfilt(v) == [x |-> v.x, lp |-> TRUE]

\* Lines 420-436 for one channel of a plate: the frames of a short run's
\* window are zeroed, those of another run's window are filtered.
FilterChannel(ch, force_norms) ==
    LET runs == NonZeroSegments(force_norms)
        written(t) == {run \in runs : t - 1 \in RunWindow(run[1], run[2])}
    IN  List([t \in 1..Len(ch) |->
            IF written(t) = {} THEN ch[t]
            ELSE LET run == CHOOSE r \in written(t) : TRUE
                 IN  IF TooShort(run[1], run[2]) THEN Zeros3
                     ELSE Filtfilt(ch[t])])

\* The frames, 1-based, that the loops of lines 420-436 write.
WrittenFrames(force_norms) ==
    LET non_zero_segments == NonZeroSegments(force_norms)
    IN  UNION {{t + 1 : t \in RunWindow(run[1], run[2])} :
                    run \in non_zero_segments}

\* A write that goes into the array the list item holds.
WriteInPlace == "in place"
\* self.force_plate_raw_forces[i][t] = ... at lines 425-427 and 434-436:
\* the list item is rebound to a new array.
LowpassWrite == "rebind"

\* The sharing of a list's items after the frames `frames` were written.
SharedAfter(shared, frames, kind) ==
    List([t \in 1..Len(shared) |->
            IF t \in frames /\ kind = "rebind" THEN FALSE ELSE shared[t]])

\* A list of the parent after one of its segments, which holds the frames
\* from `start` on, wrote the values `after` at its frames `frames`.
ParentAfter(parent_list, start, after, frames, shared, kind) ==
    List([t \in 1..Len(parent_list) |->
            IF /\ t - start \in 1..Len(shared)
               /\ SeenByOtherHolder(kind, shared[t - start])
               /\ t - start \in frames
            THEN after[t - start] ELSE parent_list[t]])

\* No pose series is too short to filter.
NeverTooFew(trial_len) == FALSE

\* trial_len < 10
TooFewFrames(trial_len) == trial_len < MinFilterFrames

\* lowpass_filter on a segment whose kinematics_poses has been set: the
\* segment afterwards, with the value returned.
LowpassFilter(seg) ==
    LET trial_len == seg.kinematics_poses
        norms == List([p \in 1..Len(seg.force_plate_raw_forces) |->
                    ForceNorms(seg.force_plate_raw_forces[p], trial_len)])
        forces == List([p \in 1..Len(seg.force_plate_raw_forces) |->
                    FilterChannel(seg.force_plate_raw_forces[p], norms[p])])
        cops == List([p \in 1..Len(seg.force_plate_raw_cops) |->
                    FilterChannel(seg.force_plate_raw_cops[p], norms[p])])
        moments == List([p \in 1..Len(seg.force_plate_raw_moments) |->
                    FilterChannel(seg.force_plate_raw_moments[p], norms[p])])
    IN  IF TooFewFrames(trial_len)
        THEN [seg EXCEPT !.lowpass_returned = "False"]
        ELSE [seg EXCEPT
                !.lowpass_poses = trial_len,
                !.force_plate_raw_forces = forces,
                !.force_plate_raw_cops = cops,
                !.force_plate_raw_moments = moments,
                !.shares_channels =
                    [p \in 1..Len(forces) |->
                        SharedAfter(seg.shares_channels[p],
                                    WrittenFrames(norms[p]), LowpassWrite)],
                !.lowpass_force_plates =
                    seg.lowpass_force_plates \o
                    [p \in 1..Len(forces) |->
                        [forces |-> forces[p],
                         centersOfPressure |-> cops[p],
                         moments |-> moments[p]]],
                !.lowpass_returned = "True"]

(***************************************************************************)
(* split_segments                                                          *)
(***************************************************************************)
\* sorted(list(set(points)))
SortedSeq(S) ==
    [i \in 1..Cardinality(S) |->
        CHOOSE x \in S : Cardinality({y \in S : y < x}) = i - 1]

HasMarkers(obs) == List([t \in 1..Len(obs) |-> Len(obs[t]) > 0])

\* The indices i in 1..len-1 (0-based) at which a boolean list changes value.
Transitions(flags) ==
    {i \in 1..(Len(flags) - 1) : flags[i + 1] # flags[i]}

\* total_forces[t]: the sum over the plates of ||force|| + ||moment||.
RECURSIVE TotalForce(_, _, _, _)
TotalForce(forces, moments, i, t) ==
    IF i > Len(forces) THEN 0
    ELSE Norm(forces[i][t]) + Norm(moments[i][t])
         + TotalForce(forces, moments, i + 1, t)

\* has_forces before gap filling: f > 1e-3.
RawHasForces(forces, moments, n) ==
    List([t \in 1..n |-> TotalForce(forces, moments, 1, t) > ForceEps])

\* int(max_grf_gap_fill_size / self.timestep)
GapFrames(gap, ts) == (gap * ts[2]) \div ts[1]

\* has_forces[j] = True for j in range(from, to)  (0-based, to excluded)
FillRange(has_forces, from, to) ==
    List([j \in 1..Len(has_forces) |->
            IF from <= j - 1 /\ j - 1 < to THEN TRUE ELSE has_forces[j]])

\* Whether the loop of lines 245-251 fills the off-run that ends at i.
FillsInner(i, last_transition_off, limit) == i - last_transition_off < limit
\* Whether line 252 fills the trailing off-run.
FillsTrailing(len, last_transition_off, limit) == len - last_transition_off < limit

\* One iteration of the loop of lines 245-251, at index i (0-based).
GapFillStep(st, i, limit) ==
    IF st.has_forces[i + 1] /\ ~st.has_forces[i + 2]
    THEN [st EXCEPT !.last_transition_off = i + 1]
    ELSE IF ~st.has_forces[i + 1] /\ st.has_forces[i + 2]
            /\ FillsInner(i, st.last_transition_off, limit)
    THEN [st EXCEPT !.has_forces =
                       FillRange(st.has_forces, st.last_transition_off, i + 1)]
    ELSE st

\* The iterations lo..hi of that loop, in order (folded by halves).
RECURSIVE GapFillScan(_, _, _, _)
GapFillScan(st, lo, hi, limit) ==
    IF lo > hi THEN st
    ELSE IF lo = hi THEN GapFillStep(st, lo, limit)
    ELSE LET mid == (lo + hi) \div 2
             first == GapFillScan(st, lo, mid, limit)
         IN  IF Done(first.last_transition_off)
             THEN GapFillScan(first, mid + 1, hi, limit)
             ELSE first

\* Lines 244-254: has_forces with its short gaps filled (a list of >= 1
\* frames).
GapFill(has_forces, limit) ==
    LET scan == GapFillScan([has_forces |-> has_forces,
                             last_transition_off |-> 0],
                            0, Len(has_forces) - 2, limit)
        hf == scan.has_forces
    IN  IF ~hf[Len(hf)]
           /\ FillsTrailing(Len(hf), scan.last_transition_off, limit)
        THEN FillRange(hf, scan.last_transition_off, Len(hf))
        ELSE hf

\* A length split that cuts an over-long span once only.
LengthSplitOnce(from, segment_length, cap) ==
    IF segment_length > cap THEN {from + cap} ELSE {}

\* range(max_segment_frames, segment_length, max_segment_frames), added to
\* the start of the over-long span.
LengthSplit(from, segment_length, cap) ==
    IF segment_length > cap
    THEN {from + k * cap : k \in {h \in 1..segment_length : h * cap < segment_length}}
    ELSE {}

\* Length splits at the multiples of the cap counted from frame 0, whatever
\* span they fall in.
WithLengthSplitsFromZero(points, cap) ==
    LET sp == SortedSeq(points)
        len == IF Len(sp) = 0 THEN 0 ELSE sp[Len(sp)]
    IN  points \cup {k * cap : k \in {h \in 1..len : h * cap < len}}

\* Lines 263-270: the split points with the length splits added.
WithLengthSplits(points, cap) ==
    LET sp == SortedSeq(points)
    IN  points \cup UNION {LengthSplit(sp[i], sp[i + 1] - sp[i], cap) :
                              i \in 1..(Len(sp) - 1)}

\* Split points that start from [0] alone, without the trial's length.
SplitPointsFromZero(has_markers, has_forces, cap) ==
    SortedSeq(WithLengthSplits(
        {0} \cup Transitions(has_markers) \cup Transitions(has_forces), cap))

\* Split points at the marker transitions and the length cap only.
SplitPointsOnMarkers(has_markers, has_forces, cap) ==
    SortedSeq(WithLengthSplits(
        {0, Len(has_markers)} \cup Transitions(has_markers), cap))

\* Lines 223-270: the final, sorted split points.
SplitPoints(has_markers, has_forces, cap) ==
    SortedSeq(WithLengthSplits(
        {0, Len(has_markers)} \cup Transitions(has_markers)
                              \cup Transitions(has_forces), cap))

\* The gap-filled has_forces of the loaded trial.
FilledHasForces(gap) ==
    GapFill(RawHasForces(force_plate_raw_forces, force_plate_raw_moments,
                         Len(marker_observations)),
            GapFrames(gap, timestep))

\* any(has_forces[start:end])
AnyForces(has_forces, start, end) ==
    \E t \in (start + 1)..end : has_forces[t]

\* Lines 222-276: the segments split_segments builds.
SegmentsOf(gap, cap) ==
    LET has_markers == HasMarkers(marker_observations)
        has_forces == FilledHasForces(gap)
        split_points == SplitPoints(has_markers, has_forces, cap)
    IN  [i \in 1..(Len(split_points) - 1) |->
            [TrialSegment(marker_observations, force_plate_raw_forces,
                          force_plate_raw_cops, force_plate_raw_moments,
                          timestamps, split_points[i], split_points[i + 1])
             EXCEPT !.has_markers = has_markers[split_points[i] + 1],
                    !.has_forces = AnyForces(has_forces, split_points[i],
                                             split_points[i + 1])]]

\* A split_segments that returns early only when the trial has no frames
\* instead of when it is errored.
SplitSegmentsUnlessEmpty(gap, cap) ==
    /\ pc = "loaded"
    /\ max_grf_gap_fill_size' = gap
    /\ max_segment_frames' = cap
    /\ IF Len(marker_observations) = 0
       THEN /\ pc' = "skipped"
            /\ UNCHANGED segments
       ELSE /\ pc' = "segmented"
            /\ segments' = SegmentsOf(gap, cap)
    /\ UNCHANGED <<file, trialVars>>

\* split_segments(max_grf_gap_fill_size, max_segment_frames), on a trial
\* that load_trial returned or on one as Trial() constructed it.  Without
\* frames has_forces is the empty list, and has_forces[-1] at line 252
\* raises IndexError, after self.segments = [] at line 222.
SplitSegments(gap, cap) ==
    /\ pc \in {"new", "loaded"}
    /\ max_grf_gap_fill_size' = gap
    /\ max_segment_frames' = cap
    /\ IF error
       THEN /\ pc' = "skipped"
            /\ UNCHANGED segments
       ELSE IF Len(marker_observations) = 0
       THEN /\ pc' = "raised IndexError"
            /\ segments' = <<>>
       ELSE /\ pc' = "segmented"
            /\ segments' = SegmentsOf(gap, cap)
    /\ UNCHANGED <<file, trialVars>>

\* autoclip_force_plates called on the loaded trial, after the call that
\* set_force_plates made.
AutoclipForcePlates ==
    /\ pc = "loaded"
    /\ pc' = "clipped again"
    /\ LET trial_len == Len(marker_observations)
           plates == [i \in 1..Len(force_plate_raw_forces) |->
                        ClipPlate(force_plate_raw_forces[i],
                                  force_plate_raw_cops[i],
                                  force_plate_raw_moments[i],
                                  force_plate_thresholds[i], trial_len)]
       IN  /\ force_plate_raw_forces' = [i \in 1..Len(plates) |-> plates[i].forces]
           /\ force_plate_raw_cops' = [i \in 1..Len(plates) |-> plates[i].cops]
           /\ force_plate_raw_moments' = [i \in 1..Len(plates) |-> plates[i].moments]
           /\ force_plate_thresholds' = [i \in 1..Len(plates) |-> plates[i].threshold]
    /\ UNCHANGED <<file, marker_observations, timestamps, timestep, error,
                   error_loading_files, segments, max_grf_gap_fill_size,
                   max_segment_frames>>

\* The kinematics fit of segment i stores its poses, one column per frame
\* of the segment (kinematics_poses is modelled by its number of columns).
FitKinematics(i) ==
    /\ pc = "segmented"
    /\ i \in 1..Len(segments)
    /\ segments[i].kinematics_poses < 0
    /\ segments' = [segments EXCEPT ![i].kinematics_poses =
                                        segments[i].end - segments[i].start]
    /\ UNCHANGED <<file, pc, trialVars, max_grf_gap_fill_size,
                   max_segment_frames>>

\* The frames lowpass_filter writes on plate p of a segment.
LowpassWritten(seg, p) ==
    IF TooFewFrames(seg.kinematics_poses)
    THEN {}
    ELSE WrittenFrames(ForceNorms(seg.force_plate_raw_forces[p],
                                  seg.kinematics_poses))

\* One call of segments[i].lowpass_filter(): the segment afterwards, and
\* the parent's lists, which hold the arrays the segment was sliced from.
LowpassCall(i) ==
    LET seg == segments[i]
        after == LowpassFilter(seg)
        Parent(lists, written) ==
            [p \in 1..Len(lists) |->
                ParentAfter(lists[p], seg.start, written[p],
                            LowpassWritten(seg, p), seg.shares_channels[p],
                            LowpassWrite)]
    IN  /\ segments' = [segments EXCEPT ![i] = after]
        /\ force_plate_raw_forces' =
                Parent(force_plate_raw_forces, after.force_plate_raw_forces)
        /\ force_plate_raw_cops' =
                Parent(force_plate_raw_cops, after.force_plate_raw_cops)
        /\ force_plate_raw_moments' =
                Parent(force_plate_raw_moments, after.force_plate_raw_moments)
        /\ UNCHANGED <<file, pc, marker_observations, force_plate_thresholds,
                       timestamps, timestep, error, error_loading_files,
                       max_grf_gap_fill_size, max_segment_frames>>

\* segments[i].lowpass_filter(), once the segment has its kinematics.
LowpassSegment(i) ==
    /\ pc = "segmented"
    /\ i \in 1..Len(segments)
    /\ segments[i].kinematics_poses >= 0
    /\ segments[i].lowpass_returned = "not called"
    /\ LowpassCall(i)

\* Calls of lowpass_filter on one segment.
MaxLowpassCalls == 2

\* segments[i].lowpass_filter() called again.
LowpassAgain(i) ==
    /\ pc = "segmented"
    /\ i \in 1..Len(segments)
    /\ segments[i].lowpass_returned = "True"
    /\ Len(segments[i].lowpass_force_plates)
            < MaxLowpassCalls * Len(segments[i].force_plate_raw_forces)
    /\ LowpassCall(i)

\* A marker position written by a later stage.
Refitted == {"refitted"}

\* A later stage replaces the marker positions of segment i, by writing into
\* the arrays or by storing new ones.
ReplaceMarkers(i, kind) ==
    /\ pc = "segmented"
    /\ i \in 1..Len(segments)
    /\ LET seg == segments[i]
           New(obs) == [m \in 1..Len(obs) |-> Refitted]
           replaced == List([t \in 1..Len(seg.marker_observations) |->
                                New(seg.marker_observations[t])])
       IN  /\ replaced # seg.marker_observations
           /\ segments' = [segments EXCEPT ![i].marker_observations = replaced,
                                           ![i].shares_markers =
                                                seg.shares_markers
                                                /\ kind = "in place"]
           /\ marker_observations' =
                List([t \in 1..Len(marker_observations) |->
                        IF t - seg.start \in 1..Len(replaced)
                           /\ SeenByOtherHolder(kind, seg.shares_markers)
                        THEN replaced[t - seg.start]
                        ELSE marker_observations[t]])
    /\ UNCHANGED <<file, pc, force_plate_raw_forces, force_plate_raw_cops,
                   force_plate_raw_moments, force_plate_thresholds,
                   timestamps, timestep, error, error_loading_files,
                   max_grf_gap_fill_size, max_segment_frames>>

(***************************************************************************)
(* Inputs: the trial folders and the arguments the operations are run on   *)
(***************************************************************************)
MaxFrames == 4

\* Timestamps of n frames, dt milliseconds apart.
UniformTimestamps(n, dt) == [i \in 1..n |-> (i - 1) * dt]

\* A force plate whose frame t carries the wrench w[t] = <<force, cop, moment>>.
Plate(w) ==
    [forces |-> List([t \in 1..Len(w) |-> Vec(w[t][1])]),
     centersOfPressure |-> List([t \in 1..Len(w) |-> Vec(w[t][2])]),
     moments |-> List([t \in 1..Len(w) |-> Vec(w[t][3])])]

C3DFile(markers, plates, ts) ==
    [kind |-> "c3d", grf |-> FALSE, markerTimesteps |-> markers,
     forcePlates |-> plates, timestamps |-> ts]
TRCFile(markers, grf, plates, ts) ==
    [kind |-> "trc", grf |-> grf, markerTimesteps |-> markers,
     forcePlates |-> plates, timestamps |-> ts]
NoFile ==
    [kind |-> "none", grf |-> FALSE, markerTimesteps |-> <<>>,
     forcePlates |-> <<>>, timestamps |-> <<>>]

\* A frame without markers, and a frame with one clean marker.
NoMarkers == <<>>
OneMarker == <<{}>>

\* Wrenches of a frame: nothing; a force of exactly 1e-3; a moment without
\* a force; a force with a moment.
SplitWrenches == {<<0, 0, 0>>, <<1, 4, 0>>, <<0, 4, 2>>, <<5, 4, 2>>}

\* The scenario of 500 frames: markers on every frame, one plate with
\* force 0 on frames 0-99, 50 N on 100-399, 0 on 400-499, except on the
\* frames of `dropout`, where the force is 0 as well.
ScenarioWrench(t, dropout) ==
    IF 100 <= t /\ t < 400 /\ t \notin dropout
    THEN <<50000, 100, 0>> ELSE <<0, 0, 0>>
\* Its timestamps: 10 ms apart when uniform; otherwise the last one is
\* moved so that (last - first) / n is 10 ms.
ScenarioTimestamps(uniform) ==
    [i \in 1..500 |-> IF i = 500 /\ ~uniform THEN 5000 ELSE (i - 1) * 10]
ScenarioFile(dropout, uniform) ==
    TRCFile(List([t \in 1..500 |-> OneMarker]), TRUE,
            <<Plate([t \in 1..500 |-> ScenarioWrench(t - 1, dropout)])>>,
            List(ScenarioTimestamps(uniform)))
Dropout5 == 200..204

\* Two plates over three frames: the second carries the only force.
TwoPlateFile ==
    C3DFile([t \in 1..3 |-> OneMarker],
            <<Plate(<<<<0, 0, 0>>, <<0, 0, 0>>, <<0, 0, 0>>>>),
              Plate(<<<<0, 0, 0>>, <<5, 4, 2>>, <<5, 4, 2>>>>)>>,
            UniformTimestamps(3, 10))

\* Wrenches of a frame with and without a force.
OnOffWrenches == {<<0, 0, 0>>, <<5, 4, 2>>}

AllMarkers(n) == [t \in 1..n |-> OneMarker]

\* Trials of up to MaxFrames frames: any marker dropout with forces on or
\* off, any of the wrenches with markers throughout, no force plate at all;
\* the trial without files; two plates; the scenarios.
SmallFiles ==
    {C3DFile([t \in 1..Len(fr) |-> fr[t][1]],
             <<Plate([t \in 1..Len(fr) |-> fr[t][2]])>>,
             UniformTimestamps(Len(fr), 10)) :
        fr \in UNION {[1..n -> {NoMarkers, OneMarker} \X OnOffWrenches] :
                        n \in 0..MaxFrames}}
    \cup {C3DFile(AllMarkers(Len(w)), <<Plate(w)>>,
                  UniformTimestamps(Len(w), 10)) :
            w \in UNION {[1..n -> SplitWrenches] : n \in 0..MaxFrames}}
    \cup {TRCFile(m, FALSE, <<>>, UniformTimestamps(Len(m), 10)) :
            m \in UNION {[1..n -> {NoMarkers, OneMarker}] : n \in 0..MaxFrames}}
    \cup {NoFile, TwoPlateFile}
ScenarioFiles == {ScenarioFile(d, u) : d \in {{}, Dropout5}, u \in BOOLEAN}
SplitFiles == SmallFiles \cup ScenarioFiles

\* max_grf_gap_fill_size, in ms, and max_segment_frames: for the trials of
\* a few frames, and for the scenarios of 500 frames.
GapFillSizes(n) == IF n < 500 THEN {0, 8, 15, 1000} ELSE {40, 1000}
SegmentCaps(n) == IF n < 500 THEN {1, 2, 3000} ELSE {250, 3000}

(***************************************************************************)
(* Specifications                                                          *)
(***************************************************************************)
\* The caller runs split_segments once on the loaded trial.
Split ==
    /\ pc = "loaded"
    /\ \E gap \in GapFillSizes(Len(marker_observations)),
          cap \in SegmentCaps(Len(marker_observations)) :
            SplitSegments(gap, cap)

Load ==
    /\ pc = "new"
    /\ \E f \in SplitFiles : LoadTrial(f)

Next == Load \/ Split

Spec == Init /\ [][Next]_vars

\* Marker files with defects.  A frame is a list of markers in dict order:
\* no marker, a clean one, one with a NaN, one with a large value, one with
\* both, and two markers of which one or both are defective.
MarkerFrames ==
    {<<>>, <<{}>>, <<{"nan"}>>, <<{"big"}>>, <<{"nan", "big"}>>,
     <<{"nan"}, {"big"}>>, <<{"big"}, {"nan"}>>, <<{}, {"nan"}>>}
MaxMarkerFrames == 3
MarkerFiles ==
    {TRCFile(m, FALSE, <<>>, UniformTimestamps(Len(m), 10)) :
        m \in UNION {[1..n -> MarkerFrames] : n \in 0..MaxMarkerFrames}}

LoadMarkers ==
    /\ pc = "new"
    /\ \E f \in MarkerFiles : LoadTrial(f)

\* split_segments with its default arguments.
SplitDefault ==
    /\ pc = "loaded"
    /\ SplitSegments(1000, 3000)

NextLoad == LoadMarkers \/ SplitDefault

SpecLoad == Init /\ [][NextLoad]_vars

\* Force plates for autoclip: one plate, markers on every frame, force
\* norms drawn from ClipNorms, a centre of pressure and a moment on every
\* frame; and a ramp of 103 frames whose norms 0, 1, ..., 101 and 200 fill
\* bins 0 to 101 with one frame each; and a plate without frames.
ClipNorms == {0, 6, 30, 38, 39, 230}
MaxClipFrames == 4
ClipPlateFile(w) ==
    C3DFile(AllMarkers(Len(w)),
            <<Plate([t \in 1..Len(w) |-> <<w[t], 4, 2>>])>>,
            UniformTimestamps(Len(w), 10))
RampFile ==
    ClipPlateFile([t \in 1..103 |-> IF t = 103 THEN 200 ELSE t - 1])
\* 153 frames whose norms 0, 49, 49, 50, 51, ..., 199 put one frame in bin 0,
\* two in bin 49 and one in each of the bins 50 to 199: the peak is bin 49
\* and no bin from it on is below the average of 153/200.
FlatFile ==
    ClipPlateFile([t \in 1..153 |-> IF t = 1 THEN 0
                                    ELSE IF t = 2 THEN 49 ELSE t + 46])
ClipFiles ==
    {ClipPlateFile(w) :
        w \in UNION {[1..n -> ClipNorms] : n \in 0..MaxClipFrames}}
    \cup {RampFile, FlatFile}

LoadPlates ==
    /\ pc = "new"
    /\ \E f \in ClipFiles : LoadTrial(f)

NextClip == LoadPlates \/ AutoclipForcePlates

SpecClip == Init /\ [][NextClip]_vars

\* Trials for lowpass_filter: markers on every frame, one plate with a
\* force on the frames of at most two intervals, a centre of pressure and
\* a moment on every frame.
MaxFilterFrames == 12
OnFrames(n) ==
    {(a..b) \cup (c..d) : a \in 1..n, b \in 0..n, c \in 1..n, d \in 0..n}
FilterFile(n, on) ==
    C3DFile(AllMarkers(n),
            <<Plate([t \in 1..n |-> IF t \in on THEN <<5, 4, 2>>
                                                ELSE <<0, 4, 2>>])>>,
            UniformTimestamps(n, 10))
FilterFiles ==
    {FilterFile(len_on[1], len_on[2]) :
        len_on \in UNION {{n} \X OnFrames(n) :
                            n \in (MinFilterFrames - 1)..MaxFilterFrames}}

LoadForFilter ==
    /\ pc = "new"
    /\ \E f \in FilterFiles : LoadTrial(f)

\* split_segments into one segment, or into segments of MinFilterFrames
\* frames and a remainder.
SplitForFilter ==
    /\ pc = "loaded"
    /\ \E cap \in {MinFilterFrames, 3000} : SplitSegments(1000, cap)

Kinematics == \E i \in 1..Len(segments) : FitKinematics(i)

Lowpass == \E i \in 1..Len(segments) : LowpassSegment(i)

NextFilter == LoadForFilter \/ SplitForFilter \/ Kinematics \/ Lowpass

SpecFilter == Init /\ [][NextFilter]_vars

\* Trials for the segments' own data: two segments of OwnSegmentFrames
\* frames each, markers on every frame, one plate with a force on one
\* interval of frames.
OwnSegmentFrames == MinFilterFrames + 2
OwnOnFrames ==
    {1..(2 * OwnSegmentFrames), 1..5, 3..(OwnSegmentFrames + 4),
     (OwnSegmentFrames + 1)..(2 * OwnSegmentFrames), {}}
OwnFiles == {FilterFile(2 * OwnSegmentFrames, on) : on \in OwnOnFrames}

LoadForOwn ==
    /\ pc = "new"
    /\ \E f \in OwnFiles : LoadTrial(f)

SplitForOwn ==
    /\ pc = "loaded"
    /\ SplitSegments(1000, OwnSegmentFrames)

LowpassLater == \E i \in 1..Len(segments) : LowpassAgain(i)

Refit ==
    \E i \in 1..Len(segments), kind \in {"in place", "rebind"} :
        ReplaceMarkers(i, kind)

NextOwn ==
    LoadForOwn \/ SplitForOwn \/ Kinematics \/ Lowpass \/ LowpassLater
    \/ Refit

SpecOwn == Init /\ [][NextOwn]_vars

\* TrialSegment(trial, start, end) constructed by a caller on the loaded
\* trial, over any range of its frames.
NewSegment(start, end) ==
    /\ pc = "loaded"
    /\ 0 <= start /\ start < end /\ end <= Len(marker_observations)
    /\ pc' = "segment built"
    /\ segments' = <<TrialSegment(marker_observations, force_plate_raw_forces,
                                  force_plate_raw_cops, force_plate_raw_moments,
                                  timestamps, start, end)>>
    /\ UNCHANGED <<file, trialVars, max_grf_gap_fill_size, max_segment_frames>>

BuildSegment ==
    \E start \in 0..MaxMarkerFrames, end \in 0..MaxMarkerFrames :
        NewSegment(start, end)

NextSegment == LoadMarkers \/ BuildSegment

SpecSegment == Init /\ [][NextSegment]_vars

\* Trials of at most one frame, and the Trial that was never loaded.
EdgeFiles == {f \in SmallFiles : Len(f.markerTimesteps) <= 1}

LoadEdge ==
    /\ pc = "new"
    /\ \E f \in EdgeFiles : LoadTrial(f)

\* split_segments on the Trial as Trial() constructed it.
SplitAsConstructed ==
    /\ pc = "new"
    /\ \E gap \in GapFillSizes(0), cap \in SegmentCaps(0) :
            SplitSegments(gap, cap)

NextEdge == LoadEdge \/ Split \/ SplitAsConstructed

SpecEdge == Init /\ [][NextEdge]_vars

(***************************************************************************)
(* Claims about split_segments                                             *)
(***************************************************************************)
Frames == Len(marker_observations)
Segmented == pc = "segmented"

\* has_forces of the loaded trial before gap filling (1-based frames).
RawOn == RawHasForces(force_plate_raw_forces, force_plate_raw_moments, Frames)

\* C1: the segments of a non-errored trial of N >= 1 frames have ranges
\* with 0 <= start < end <= N, are back-to-back in increasing order, and
\* cover [0, N) exactly.
C1_Partition ==
    Segmented =>
        /\ Frames >= 1
        /\ Len(segments) >= 1
        /\ segments[1].start = 0
        /\ segments[Len(segments)].end = Frames
        /\ \A i \in 1..Len(segments) :
              /\ 0 <= segments[i].start
              /\ segments[i].start < segments[i].end
              /\ segments[i].end <= Frames
        /\ \A i \in 1..(Len(segments) - 1) :
              segments[i].end = segments[i + 1].start
\* C1 happens: a trial cut into at least three segments.
C1_Witness == Segmented /\ Len(segments) >= 3

\* C2: no segment is longer than max_segment_frames.
C2_LengthCap ==
    Segmented =>
        \A i \in 1..Len(segments) :
            segments[i].end - segments[i].start <= max_segment_frames
\* C2 happens: a span of one classification longer than the cap was cut
\* into a full-length piece and a remainder.
C2_Witness ==
    /\ Segmented
    /\ \E i \in 1..(Len(segments) - 1) :
          /\ segments[i].end - segments[i].start = max_segment_frames
          /\ segments[i].has_markers = segments[i + 1].has_markers
          /\ segments[i].has_forces = segments[i + 1].has_forces
          /\ LET raw == RawOn
             IN  \A t \in (segments[i].start + 1)..segments[i + 1].end :
                    raw[t] = raw[segments[i].start + 1]

\* The isolated off-runs: <<a, b>>, 1-based and inclusive, are raw
\* forces-off frames with a forces-on frame right before and right after.
OffRunEnd(raw, a) ==
    CHOOSE b \in a..Len(raw) :
        /\ \A t \in a..b : ~raw[t]
        /\ b = Len(raw) \/ raw[b + 1]
IsolatedOffRunsOf(raw) ==
    {<<a, OffRunEnd(raw, a)>> :
        a \in {t \in 2..Len(raw) : raw[t - 1] /\ ~raw[t]
                                   /\ OffRunEnd(raw, t) < Len(raw)}}
IsolatedOffRuns == IsolatedOffRunsOf(RawOn)
\* The segments that hold a frame of the run.
SegmentsOver(run) ==
    {i \in 1..Len(segments) :
        segments[i].start <= run[2] - 1 /\ segments[i].end > run[1] - 1}
RunFilled(run) == \A i \in SegmentsOver(run) : segments[i].has_forces
\* g < max_grf_gap_fill_size / timestep, for a run of g frames.
ShorterThanGap(run) ==
    (run[2] - run[1] + 1) * timestep[1] < max_grf_gap_fill_size * timestep[2]

\* C3: an isolated off-run of g frames is filled if and only if
\* g < max_grf_gap_fill_size / timestep; when it is not filled (as in the
\* case g = max_grf_gap_fill_size / timestep) both of its ends are split
\* points.
C3_GapFillIffShorter ==
    Segmented =>
        \A run \in IsolatedOffRuns :
            /\ RunFilled(run) <=> ShorterThanGap(run)
            /\ ~ShorterThanGap(run) =>
                  /\ \E i \in 1..Len(segments) : segments[i].start = run[1] - 1
                  /\ \E i \in 1..Len(segments) : segments[i].start = run[2]

\* The scenario's trial, as loaded: 500 frames with markers, one plate with
\* a force on frames 100-399 only and no moment where there is no force,
\* a timestep of 10 ms.
IsScenarioTrial ==
    /\ Frames = 500
    /\ \A t \in 1..Frames : Len(marker_observations[t]) > 0
    /\ Len(force_plate_raw_forces) = 1
    /\ \A t \in 1..Frames :
          /\ Norm(force_plate_raw_forces[1][t])
                = IF 100 <= t - 1 /\ t - 1 < 400 THEN 50000 ELSE 0
          /\ Norm(force_plate_raw_forces[1][t]) = 0
                => Norm(force_plate_raw_moments[1][t]) = 0
    /\ timestep[1] = 10 * timestep[2]

\* C4: the scenario's trial, split with max_grf_gap_fill_size = 1.0 s and
\* max_segment_frames = 3000, gives the three segments [0,100), [100,400),
\* [400,500), of which only [100,400) has forces.
C4_Scenario ==
    (Segmented /\ IsScenarioTrial
       /\ max_grf_gap_fill_size = 1000 /\ max_segment_frames = 3000) =>
        /\ Len(segments) = 3
        /\ <<segments[1].start, segments[1].end>> = <<0, 100>>
        /\ <<segments[2].start, segments[2].end>> = <<100, 400>>
        /\ <<segments[3].start, segments[3].end>> = <<400, 500>>
        /\ ~segments[1].has_forces
        /\ segments[2].has_forces
        /\ ~segments[3].has_forces

\* C5: split_segments on a trial whose error flag is set constructs no
\* segment, changes no field of the trial and leaves segments empty.
C5_ErrorSkips ==
    [][(pc = "loaded" /\ error) =>
          /\ pc' = "skipped"
          /\ segments = <<>> /\ segments' = <<>>
          /\ UNCHANGED trialVars]_vars
\* C5 happens: an errored trial with frames went through split_segments.
C5_Witness == pc = "skipped" /\ error /\ Frames > 0

(***************************************************************************)
(* Claims about load_trial's validation                                    *)
(***************************************************************************)
\* Some marker of some loaded frame has a NaN component.
NaNLoaded ==
    \E t \in 1..Frames :
        \E k \in 1..Len(marker_observations[t]) :
            HasNaN(marker_observations[t][k])
LargeLoaded ==
    \E t \in 1..Frames :
        \E k \in 1..Len(marker_observations[t]) :
            HasLarge(marker_observations[t][k])

\* C6: a loaded marker series with a NaN component at some frame gives a
\* trial with error = true whose message is the one about NaNs in marker
\* data, whatever the other frames and markers hold, and split_segments
\* then leaves segments empty.
C6_NaNMessage ==
    (pc # "new" /\ NaNLoaded) =>
        /\ error
        /\ error_loading_files = "NaNs in marker data"
        /\ segments = <<>>

(***************************************************************************)
(* Claims about autoclip_force_plates                                      *)
(***************************************************************************)
\* C7: a second run of autoclip_force_plates, on the plates as the first
\* run left them, changes no threshold entry and no frame of the force,
\* centre-of-pressure and moment channels.
C7_AutoclipIdempotent ==
    [][(pc = "loaded" /\ pc' = "clipped again") =>
          UNCHANGED <<force_plate_thresholds, force_plate_raw_forces,
                      force_plate_raw_cops, force_plate_raw_moments>>]_vars

\* Autoclip skips a plate with these force norms: the tallest bin is not
\* in the lowest quarter, or the right bound is beyond half of the bins.
TallestBin(norms) == ClipDecision(norms).hist_max_index
Skipped(norms) ==
    LET decision == ClipDecision(norms)
    IN  \/ ~(4 * decision.hist_max_index < 200)
        \/ 2 * decision.right_bound > 200
FileNorms(f, i) ==
    [t \in 1..Len(f.markerTimesteps) |-> Norm(f.forcePlates[i].forces[t])]
TrialNorms(i) ==
    [t \in 1..Frames |-> Norm(force_plate_raw_forces[i][t])]
MarkersClean == AnyHaveMarkers(marker_observations) /\ ~NaNLoaded /\ ~LargeLoaded

\* C8: when autoclip skips a plate (tallest bin not in the lowest quarter
\* of the 200 bins, or right bound beyond half of them), the plate's force,
\* centre-of-pressure and moment channels are unchanged at every frame and
\* its threshold stays as it was, which is 0 for the run load_trial makes;
\* no error is flagged.
C8_AutoclipSkip ==
    [][/\ (pc = "new" /\ pc' = "loaded") =>
            \A i \in 1..Len(force_plate_raw_forces') :
                Skipped(FileNorms(file', i)) =>
                    /\ force_plate_raw_forces'[i] = file'.forcePlates[i].forces
                    /\ force_plate_raw_cops'[i]
                          = file'.forcePlates[i].centersOfPressure
                    /\ force_plate_raw_moments'[i] = file'.forcePlates[i].moments
                    /\ force_plate_thresholds'[i] = 0
                    /\ MarkersClean' => ~error'
       /\ (pc = "loaded" /\ pc' = "clipped again") =>
            \A i \in 1..Len(force_plate_raw_forces) :
                Skipped(TrialNorms(i)) =>
                    /\ force_plate_raw_forces'[i] = force_plate_raw_forces[i]
                    /\ force_plate_raw_cops'[i] = force_plate_raw_cops[i]
                    /\ force_plate_raw_moments'[i] = force_plate_raw_moments[i]
                    /\ force_plate_thresholds'[i] = force_plate_thresholds[i]
                    /\ UNCHANGED <<error, error_loading_files>>]_vars
\* C8 happens: a loaded plate with forces whose tallest bin is in the
\* lowest quarter and whose right bound is beyond half of the bins.
C8_Witness ==
    /\ pc = "loaded"
    /\ \E i \in 1..Len(force_plate_raw_forces) :
          /\ 4 * TallestBin(FileNorms(file, i)) < 200
          /\ Skipped(FileNorms(file, i))
          /\ \E t \in 1..Frames : Norm(force_plate_raw_forces[i][t]) > 0

(***************************************************************************)
(* Claims about lowpass_filter                                             *)
(***************************************************************************)
\* The maximal runs <<a, b>> (1-based, inclusive) of frames of a channel
\* with a strictly positive force magnitude.
PositiveRuns(forces) ==
    {run \in (1..Len(forces)) \X (1..Len(forces)) :
        /\ run[1] <= run[2]
        /\ \A t \in run[1]..run[2] : Norm(forces[t]) > 0
        /\ run[1] = 1 \/ Norm(forces[run[1] - 1]) = 0
        /\ run[2] = Len(forces) \/ Norm(forces[run[2] + 1]) = 0}
Filtered(i) == segments[i].lowpass_returned = "True"

\* C9: a frame of a segment's plate whose force magnitude is zero before
\* lowpass_filter holds exactly its former force, centre of pressure and
\* moment afterwards, in the segment's channels and in the low-passed
\* plate: no window of filtering or zeroing includes it.
C9_ZeroFramesUnchanged ==
    [][\A i \in 1..Len(segments) :
         \A p \in 1..Len(segments[i].force_plate_raw_forces) :
           \A t \in 1..Len(segments[i].force_plate_raw_forces[p]) :
             Norm(segments[i].force_plate_raw_forces[p][t]) = 0 =>
               /\ segments'[i].force_plate_raw_forces[p][t]
                     = segments[i].force_plate_raw_forces[p][t]
               /\ segments'[i].force_plate_raw_cops[p][t]
                     = segments[i].force_plate_raw_cops[p][t]
               /\ segments'[i].force_plate_raw_moments[p][t]
                     = segments[i].force_plate_raw_moments[p][t]
               /\ (~Filtered(i) /\ Filtered(i)') =>
                     /\ segments'[i].lowpass_force_plates[p].forces[t]
                           = segments[i].force_plate_raw_forces[p][t]
                     /\ segments'[i].lowpass_force_plates[p].centersOfPressure[t]
                           = segments[i].force_plate_raw_cops[p][t]
                     /\ segments'[i].lowpass_force_plates[p].moments[t]
                           = segments[i].force_plate_raw_moments[p][t]]_vars
\* C9 happens: after a filtering that returned true, a frame without force
\* still holds its centre of pressure and moment, next to a frame that
\* filtfilt wrote.
C9_Witness ==
    \E i \in 1..Len(segments) :
        /\ Filtered(i)
        /\ \E p \in 1..Len(segments[i].force_plate_raw_forces) :
             \E t \in 1..(Len(segments[i].force_plate_raw_forces[p]) - 1) :
                /\ Norm(segments[i].force_plate_raw_forces[p][t]) = 0
                /\ segments[i].force_plate_raw_cops[p][t] = Vec(4)
                /\ segments[i].force_plate_raw_moments[p][t] = Vec(2)
                /\ segments[i].force_plate_raw_forces[p][t + 1].lp

\* C10: after lowpass_filter returns true, every frame of every maximal
\* run of fewer than 10 frames with a strictly positive force magnitude
\* (a run of one frame and a run that ends at the segment's last frame
\* included) holds the zero vector as force, centre of pressure and moment.
C10_ShortRunsZeroed ==
    [][\A i \in 1..Len(segments) :
         (~Filtered(i) /\ Filtered(i)') =>
            \A p \in 1..Len(segments[i].force_plate_raw_forces) :
              \A run \in PositiveRuns(segments[i].force_plate_raw_forces[p]) :
                run[2] - run[1] + 1 < 10 =>
                  \A t \in run[1]..run[2] :
                    /\ segments'[i].force_plate_raw_forces[p][t] = Zeros3
                    /\ segments'[i].force_plate_raw_cops[p][t] = Zeros3
                    /\ segments'[i].force_plate_raw_moments[p][t] = Zeros3]_vars


(***************************************************************************)
(* Claims about the segments' own data                                     *)
(***************************************************************************)
\* The marker observations and channels a segment holds.
SegmentData(seg) ==
    <<seg.marker_observations, seg.force_plate_raw_forces,
      seg.force_plate_raw_cops, seg.force_plate_raw_moments>>

ParentData ==
    <<marker_observations, force_plate_raw_forces, force_plate_raw_cops,
      force_plate_raw_moments>>

\* C11: once the trial is segmented, a call of lowpass_filter on a segment
\* or a replacement of a segment's marker positions leaves the parent
\* Trial's marker observations and force, CoP and moment channels as they
\* were, and the marker observations and channels of every other segment.
C11_SegmentIndependence ==
    [][(pc = "segmented" /\ pc' = "segmented") =>
        /\ ParentData' = ParentData
        /\ \A i \in 1..Len(segments) :
            SegmentData(segments'[i]) # SegmentData(segments[i]) =>
                \A j \in 1..Len(segments) :
                    j # i => SegmentData(segments'[j]) = SegmentData(segments[j])]_vars

\* Two segments, one of them filtered twice with frames of its channels
\* replaced and with its marker positions replaced.
C11_Witness ==
    /\ pc = "segmented"
    /\ Len(segments) >= 2
    /\ \E i \in 1..Len(segments) :
        LET seg == segments[i]
        IN  /\ Len(seg.lowpass_force_plates) = 2 * Len(seg.force_plate_raw_forces)
            /\ seg.force_plate_raw_forces[1]
                    # Slice(force_plate_raw_forces[1], seg.start, seg.end)
            /\ seg.marker_observations[1] = <<Refitted>>
            /\ marker_observations[seg.start + 1] # <<Refitted>>

\* C12: lowpass_filter on a segment whose pose series has fewer than 10
\* frames returns false and changes nothing: lowpass_poses stays unset,
\* lowpass_force_plates stays empty, and the segment's channels, markers
\* and has_error are as before.
C12_ShortSeriesUntouched ==
    [][\A i \in 1..Len(segments) :
        (/\ pc = "segmented" /\ pc' = "segmented"
         /\ segments[i].kinematics_poses \in 0..9
         /\ segments[i].lowpass_returned = "not called"
         /\ segments'[i].lowpass_returned # "not called")
        => /\ segments'[i].lowpass_returned = "False"
           /\ segments'[i].lowpass_poses = -1
           /\ segments'[i].lowpass_force_plates = <<>>
           /\ segments'[i].has_error = segments[i].has_error
           /\ segments'[i] = [segments[i] EXCEPT !.lowpass_returned = "False"]
           /\ ParentData' = ParentData]_vars

\* lowpass_filter has returned false on a segment of fewer than 10 frames
\* that has a force on some frame.
C12_Witness ==
    /\ pc = "segmented"
    /\ \E i \in 1..Len(segments) :
        /\ segments[i].lowpass_returned = "False"
        /\ segments[i].end - segments[i].start < 10
        /\ \E t \in 1..(segments[i].end - segments[i].start) :
            Norm(segments[i].force_plate_raw_forces[1][t]) > 0

(***************************************************************************)
(* Claims about the segments' classification                               *)
(***************************************************************************)
\* C13: for every segment split_segments emits, has_markers is the parent's
\* marker presence at the start frame and at every other frame of
\* [start, end), and has_forces is true iff some frame of [start, end) has
\* gap-filled forces on, which is so iff every frame of [start, end) has.
C13_Homogeneous ==
    Segmented =>
        LET present == HasMarkers(marker_observations)
            filled == FilledHasForces(max_grf_gap_fill_size)
        IN  \A i \in 1..Len(segments) :
                LET seg == segments[i]
                    range == (seg.start + 1)..seg.end
                IN  /\ seg.has_markers = present[seg.start + 1]
                    /\ \A t \in range : present[t] = seg.has_markers
                    /\ seg.has_forces <=> \E t \in range : filled[t]
                    /\ (\E t \in range : filled[t])
                            <=> (\A t \in range : filled[t])

\* A trial split into a segment of several frames with markers and forces
\* and a segment of several frames with neither.
C13_Witness ==
    /\ Segmented
    /\ \E i, j \in 1..Len(segments) :
        /\ segments[i].end - segments[i].start >= 2
        /\ segments[j].end - segments[j].start >= 2
        /\ segments[i].has_markers /\ segments[i].has_forces
        /\ ~segments[j].has_markers /\ ~segments[j].has_forces

(***************************************************************************)
(* Claims about the windows lowpass_filter filters                         *)
(***************************************************************************)
\* C14: in lowpass_filter, every maximal run of strictly positive force
\* magnitude of 10 frames or more, a run of exactly 10 included, is filtered
\* and not zeroed, and the window filtered is the run from its first to its
\* last frame: every frame of the run holds the filter's output in force,
\* centre of pressure and moment, and the frames next to the run do not.
C14_LongRunsFiltered ==
    [][\A i \in 1..Len(segments) :
         (~Filtered(i) /\ Filtered(i)') =>
            \A p \in 1..Len(segments[i].force_plate_raw_forces) :
              \A run \in PositiveRuns(segments[i].force_plate_raw_forces[p]) :
                run[2] - run[1] + 1 >= 10 =>
                  /\ \A t \in run[1]..run[2] :
                        /\ segments'[i].lowpass_force_plates[p].forces[t]
                            = Filtfilt(segments[i].force_plate_raw_forces[p][t])
                        /\ segments'[i].lowpass_force_plates[p].centersOfPressure[t]
                            = Filtfilt(segments[i].force_plate_raw_cops[p][t])
                        /\ segments'[i].lowpass_force_plates[p].moments[t]
                            = Filtfilt(segments[i].force_plate_raw_moments[p][t])
                  /\ \A t \in {run[1] - 1, run[2] + 1}
                            \cap (1..Len(segments[i].force_plate_raw_forces[p])) :
                        ~segments'[i].lowpass_force_plates[p].forces[t].lp]_vars

\* C15: after lowpass_filter returns true, the segment's raw force, centre
\* of pressure and moment channels and its kinematics_poses hold the values
\* they held before the call; the filtered values are in lowpass_poses and
\* lowpass_force_plates only.
C15_RawChannelsKept ==
    [][\A i \in 1..Len(segments) :
         (~Filtered(i) /\ Filtered(i)') =>
            /\ segments'[i].force_plate_raw_forces
                    = segments[i].force_plate_raw_forces
            /\ segments'[i].force_plate_raw_cops
                    = segments[i].force_plate_raw_cops
            /\ segments'[i].force_plate_raw_moments
                    = segments[i].force_plate_raw_moments
            /\ segments'[i].kinematics_poses = segments[i].kinematics_poses
            /\ segments'[i].lowpass_poses >= 0
            /\ Len(segments'[i].lowpass_force_plates)
                    = Len(segments[i].force_plate_raw_forces)]_vars

(***************************************************************************)
(* Claims about the threshold of autoclip_force_plates                     *)
(***************************************************************************)
\* The bins at or right of the tallest bin whose count is below N/200.
BinsBelowAverage(norms) ==
    LET bins == Bins(norms)
        occupied == {bins[t] : t \in 1..Len(bins)}
    IN  {j \in TallestBin(norms)..199 :
            IF j \in occupied THEN BinCount(bins, j) * 200 < Len(norms)
            ELSE 0 < Len(norms)}
FirstBin(below) == CHOOSE j \in below : \A k \in below : j <= k
EdgeOfBin(norms, j) == BinEdge(j, HistLo2(norms), HistHi2(norms))

\* Plate i after autoclip has the threshold thr (in units of 1/400 of the
\* model's unit), zero vectors in force, centre of pressure and moment at
\* exactly the frames whose norm was below thr, and the values of `before`
\* at every other frame.
ClippedAt(i, thr, norms, before) ==
    /\ force_plate_thresholds'[i] = thr
    /\ \A t \in 1..Len(norms) :
        IF 400 * norms[t] < thr
        THEN /\ force_plate_raw_forces'[i][t] = Zeros3
             /\ force_plate_raw_cops'[i][t] = Zeros3
             /\ force_plate_raw_moments'[i][t] = Zeros3
        ELSE /\ force_plate_raw_forces'[i][t] = before.forces[t]
             /\ force_plate_raw_cops'[i][t] = before.centersOfPressure[t]
             /\ force_plate_raw_moments'[i][t] = before.moments[t]

\* Plate i of the trial as it is.
TrialPlate(i) ==
    [forces |-> force_plate_raw_forces[i],
     centersOfPressure |-> force_plate_raw_cops[i],
     moments |-> force_plate_raw_moments[i]]

\* C16, as stated: when autoclip acts on a plate (tallest bin in the lowest
\* quarter, right bound not above half of the bins), the threshold it
\* records is the left edge of the first bin at or right of the tallest one
\* whose count is below N/200, exactly the frames whose norm was below the
\* threshold hold zero vectors in force, centre of pressure and moment, and
\* every other frame is unchanged in the three channels.
C16_ThresholdAtFirstLowBin ==
    [][/\ (pc = "new" /\ pc' = "loaded") =>
            \A i \in 1..Len(force_plate_raw_forces') :
                LET norms == FileNorms(file', i)
                    below == BinsBelowAverage(norms)
                IN  ~Skipped(norms) =>
                        /\ below # {}
                        /\ ClippedAt(i, EdgeOfBin(norms, FirstBin(below)),
                                     norms, file'.forcePlates[i])
       /\ (pc = "loaded" /\ pc' = "clipped again") =>
            \A i \in 1..Len(force_plate_raw_forces) :
                LET norms == TrialNorms(i)
                    below == BinsBelowAverage(norms)
                IN  ~Skipped(norms) =>
                        /\ below # {}
                        /\ ClippedAt(i, EdgeOfBin(norms, FirstBin(below)),
                                     norms, TrialPlate(i))]_vars

\* The bin whose left edge is the threshold: the first bin at or right of
\* the tallest one whose count is below N/200, and the tallest bin itself
\* when no bin from it on is below N/200.
ThresholdBin(norms) ==
    LET below == BinsBelowAverage(norms)
    IN  IF below = {} THEN TallestBin(norms) ELSE FirstBin(below)

\* C16, amended: when autoclip acts on a plate, the threshold it records is
\* the left edge of the first bin at or right of the tallest one whose
\* count is below N/200, or of the tallest bin itself when there is no such
\* bin; exactly the frames whose norm was below the threshold hold zero
\* vectors in force, centre of pressure and moment, and every other frame
\* is unchanged in the three channels.
C16_ThresholdAtLowBinOrPeak ==
    [][/\ (pc = "new" /\ pc' = "loaded") =>
            \A i \in 1..Len(force_plate_raw_forces') :
                LET norms == FileNorms(file', i)
                IN  ~Skipped(norms) =>
                        ClippedAt(i, EdgeOfBin(norms, ThresholdBin(norms)),
                                  norms, file'.forcePlates[i])
       /\ (pc = "loaded" /\ pc' = "clipped again") =>
            \A i \in 1..Len(force_plate_raw_forces) :
                LET norms == TrialNorms(i)
                IN  ~Skipped(norms) =>
                        ClippedAt(i, EdgeOfBin(norms, ThresholdBin(norms)),
                                  norms, TrialPlate(i))]_vars

\* Autoclip has acted on a loaded plate: once with a bin below the average
\* right of the peak, zeroing a frame and keeping another, and once with no
\* bin below the average from the peak on, zeroing a frame left of the peak.
C16_WitnessLowBin ==
    /\ pc = "loaded"
    /\ Len(force_plate_raw_forces) = 1
    /\ LET norms == FileNorms(file, 1)
       IN  /\ ~Skipped(norms)
           /\ BinsBelowAverage(norms) # {}
           /\ force_plate_thresholds[1] > 0
           /\ \E t, u \in 1..Frames :
                /\ force_plate_raw_cops[1][t] = Zeros3
                /\ file.forcePlates[1].centersOfPressure[t] # Zeros3
                /\ force_plate_raw_forces[1][u] # Zeros3
C16_WitnessPeak ==
    /\ pc = "loaded"
    /\ Len(force_plate_raw_forces) = 1
    /\ LET norms == FileNorms(file, 1)
       IN  /\ ~Skipped(norms)
           /\ BinsBelowAverage(norms) = {}
           /\ force_plate_thresholds[1] > 0
           /\ \E t \in 1..Frames :
                /\ force_plate_raw_cops[1][t] = Zeros3
                /\ file.forcePlates[1].centersOfPressure[t] # Zeros3

(***************************************************************************)
(* Claims about the timestep                                               *)
(***************************************************************************)
\* C17: for a loaded trial with n timestamps, timestep is
\* (timestamps[n-1] - timestamps[0]) / (n - 1) when n > 1 and the default
\* of 0.01 s otherwise; timestamps d apart give a timestep of d.  The
\* timestep is the fraction timestep[1] / timestep[2] of milliseconds.
C17_TimestepIsSpacing ==
    pc # "new" =>
        LET n == Len(timestamps)
        IN  IF n > 1
            THEN timestep[1] * (n - 1)
                    = (timestamps[n] - timestamps[1]) * timestep[2]
            ELSE timestep[1] = 10 * timestep[2]

(***************************************************************************)
(* Claims about the check of a new segment                                 *)
(***************************************************************************)
\* A marker of the frames has a NaN or a value beyond 1e6.
DefectIn(obs) ==
    \E t \in 1..Len(obs) : \E k \in 1..Len(obs[t]) :
        HasNaN(obs[t][k]) \/ HasLarge(obs[t][k])

\* C18: a TrialSegment constructed over a range of frames in which some
\* marker component is NaN or beyond 1e6 in magnitude is marked as errored,
\* with has_error true and an error_msg recorded, and the parent Trial's
\* error flag is as it was before the construction.
C18_DefectMarksSegment ==
    [][(pc = "loaded" /\ pc' = "segment built") =>
        /\ error' = error
        /\ DefectIn(segments'[1].marker_observations) =>
            /\ segments'[1].has_error
            /\ segments'[1].error_msg # ""]_vars

(***************************************************************************)
(* Claims about what the gap fill fills                                    *)
(***************************************************************************)
\* C19: the gap fill of split_segments fills only off-runs that follow a
\* forces-on run: every frame that is off in the raw has_forces and on
\* after the fill has a raw forces-on frame before it.  So a leading off-run
\* is never filled, and in a trial without any raw forces-on frame (a trial
\* without force plates included) every segment has has_forces false.
C19_FillOnlyAfterForces ==
    Segmented =>
        LET raw == RawOn
            filled == FilledHasForces(max_grf_gap_fill_size)
        IN  /\ \A t \in 1..Frames :
                (~raw[t] /\ filled[t]) => \E u \in 1..(t - 1) : raw[u]
            /\ (\A t \in 1..Frames : ~raw[t]) =>
                    \A i \in 1..Len(segments) : ~segments[i].has_forces

(***************************************************************************)
(* Claims about trials of one frame and of none                            *)
(***************************************************************************)
\* C20: split_segments on a non-errored trial of exactly one frame
\* completes and emits the one segment [0, 1); on a non-errored trial
\* without frames it completes without raising and emits no segment.
C20_DegenerateLengths ==
    (~error /\ pc \notin {"new", "loaded"}) =>
        /\ pc = "segmented"
        /\ Frames = 1 =>
            /\ Len(segments) = 1
            /\ segments[1].start = 0
            /\ segments[1].end = 1
        /\ Frames = 0 => segments = <<>>

(***************************************************************************)
(* Claims about the boundaries between segments                            *)
(***************************************************************************)
\* Frame b (0-based) starts with a change of the list's value.
ChangesAt(flags, b) == flags[b + 1] # flags[b]

\* The last index before b that is 0 or a change of marker presence or of
\* the gap-filled has_forces.
LastChangeBefore(present, filled, b) ==
    LET changes == {0} \cup {a \in 1..(b - 1) :
                        ChangesAt(present, a) \/ ChangesAt(filled, a)}
    IN  CHOOSE a \in changes : \A c \in changes : c <= a

\* C21: every boundary between two adjacent segments of split_segments is
\* a change of marker presence, a change of the gap-filled has_forces, or
\* a point a whole number of max_segment_frames after the last such change
\* (or after frame 0); and whenever two adjacent segments have the same
\* has_markers and the same has_forces, the earlier one has exactly
\* max_segment_frames frames.
C21_NoSpuriousBoundary ==
    Segmented =>
        LET present == HasMarkers(marker_observations)
            filled == FilledHasForces(max_grf_gap_fill_size)
        IN  \A i \in 1..(Len(segments) - 1) :
                LET b == segments[i].end
                    earlier == segments[i].end - segments[i].start
                IN  /\ segments[i + 1].start = b
                    /\ \/ ChangesAt(present, b)
                       \/ ChangesAt(filled, b)
                       \/ (b - LastChangeBefore(present, filled, b))
                                % max_segment_frames = 0
                    /\ (/\ segments[i].has_markers = segments[i + 1].has_markers
                        /\ segments[i].has_forces = segments[i + 1].has_forces)
                       => earlier = max_segment_frames

\* A trial split at a length-cap point between two segments of the same
\* classification, the earlier of more than one frame, and at a change of
\* classification that is not a multiple of the cap after the last change.
C21_Witness ==
    /\ Segmented
    /\ \E i, j \in 1..(Len(segments) - 1) :
        /\ segments[i].has_markers = segments[i + 1].has_markers
        /\ segments[i].has_forces = segments[i + 1].has_forces
        /\ segments[i].end - segments[i].start > 1
        /\ \/ segments[j].has_markers # segments[j + 1].has_markers
           \/ segments[j].has_forces # segments[j + 1].has_forces
        /\ segments[j].end - segments[j].start < max_segment_frames

============================================================================
